---- MODULE Spec2Model ----
(***************************************************************************)
(* Model of vigenere.py: ciphertext-only analysis of a Vigenere cipher.    *)
(*                                                                         *)
(* numpy arrays are 0-based; they are held here as TLA+ sequences, so the  *)
(* element the source calls a[j] is a[j+1] below.  A Letter Code c is the  *)
(* entry c+1 of a 26-vector.                                               *)
(*                                                                         *)
(* Floats: alpha_freqs is held in units of 1e-5 (integers), a frequency of *)
(* get_key as the fraction <<numerator, denominator>> and a score of R as  *)
(* the exact integer sum of numerator * alpha_freqs over the 26 letters    *)
(* (all scores of one bucket share the positive divisor len * 1e5, so      *)
(* their order is the order of these integers).  0/0 is NaN.               *)
(***************************************************************************)
EXTENDS Integers, Sequences, FiniteSets, TLC

VARIABLES raw,          \* what file.read() returns: a sequence of ordinals
          ciphertext,   \* int array of the run
          shifts,       \* coincidence counts, shifts[i] for shift i
          printed,      \* "Shift s: n coincidences." lines, as <<s, n>>
          key_length,   \* the integer typed at the prompt
          buckets,      \* get_buckets(ciphertext, key_length)
          key,          \* get_key(buckets)
          plaintext,    \* decode(ciphertext, key)
          output,       \* the two strings printed at the end
          error,        \* exception that ended the run, "none" if none
          pc,           \* position of the script
          freq_shifts,  \* the 26x26 matrix built at import
          plain,        \* a plaintext P (round-trip specification)
          secret,       \* an encryption key K (round-trip / known vector)
          hists,        \* letter counts of each bucket (known vector)
          cfreqs,       \* cipher_freqs of get_key, as fractions
          R             \* R of get_key: one row of 26 scores per bucket

vars == <<raw, ciphertext, shifts, printed, key_length, buckets, key,
          plaintext, output, error, pc, freq_shifts, plain, secret, hists,
          cfreqs, R>>

----------------------------------------------------------------------------
(* Bounds *)

MaxLen == 3          \* longest raw text read from the file
ShiftMax == 3        \* shift_max handed to get_shifts
MaxKeyLen == 3       \* largest key length typed at the prompt
MaxPlainLen == 3     \* longest plaintext of the round trip
MaxSecretLen == 2    \* longest key of the round trip
MaxKnownLen == 3     \* longest key of the known-vector recovery

\* ordinals the file may hold: '\n', '0', 'A', 'B'
Chars == {10, 48, 65, 66}

\* Letter Codes used by the round trip
SampleCodes == {0, 1, 13, 25}

\* shifts used by known-vector keys longer than one letter ("KEY" = 10,4,24)
KnownShifts == {0, 4, 10, 24}

SeqsUpTo(S, lo, hi) == UNION {[1..n -> S] : n \in lo..hi}

\* np.array(list) / a list comprehension: the elements, evaluated once
np_array(s) == SubSeq(s, 1, Len(s))

----------------------------------------------------------------------------
(* Alphabet model *)

alpha_freqs ==
    <<8167, 1492, 2782, 4253, 12702, 2228,
      2015, 6094, 6966,  153,   772, 4025,
      2406, 6749, 7507, 1929,    95, 5987,
      6327, 9056, 2758,  978,  2360,  150,
      1974,   74>>

\* np.roll(a, k) with no axis, k >= 0: the last k mod n elements come first
roll_left(a, k) ==
    LET n == Len(a) IN
    IF n = 0 THEN a
    ELSE LET s == k % n IN SubSeq(a, s + 1, n) \o SubSeq(a, 1, s)

roll(a, k) ==
    LET n == Len(a) IN
    IF n = 0 THEN a
    ELSE LET s == k % n IN SubSeq(a, n - s + 1, n) \o SubSeq(a, 1, n - s)

make_freq_shifts_rows ==
    np_array([j \in 1..26 |-> roll(alpha_freqs, j - 1)])

\* np.hstack of 26 columns, column i being np.roll(alpha_freqs, i):
\* a sequence of rows, row j column i at [j+1][i+1]
make_freq_shifts ==
    LET cols == np_array([i \in 1..26 |-> roll(alpha_freqs, i - 1)])
    IN  np_array([j \in 1..26 |-> np_array([i \in 1..26 |-> cols[i][j]])])

----------------------------------------------------------------------------
(* Normalizer *)

\* file.read().replace('\n', ''), then ord(c) - 65 for every character
get_cipher_text(file) ==
    LET text == SelectSeq(file, LAMBDA c : c # 10)
    IN  np_array([j \in 1..Len(text) |-> text[j] - 65])

----------------------------------------------------------------------------
(* Coincidence analyzer *)

get_shifts_from_zero(ct, shift_max) ==
    np_array([i \in 1..shift_max |->
        LET rolled == roll(ct, i - 1)
        IN  Cardinality({j \in 1..Len(ct) : ct[j] = rolled[j]})])

\* np.sum(ciphertext == np.roll(ciphertext, i)) for i in range(1, shift_max+1)
get_shifts(ct, shift_max) ==
    np_array([i \in 1..shift_max |->
        LET rolled == roll(ct, i)
        IN  Cardinality({j \in 1..Len(ct) : ct[j] = rolled[j]})])

\* np.argsort(shifts): an index array (0-based) putting shifts in ascending
\* order.  The default kind is not a stable sort, so the order of equal
\* counts is whatever the build's sort produces: any such array.
argsort(a) ==
    {order \in [1..Len(a) -> 0..(Len(a) - 1)] :
        /\ \A x, y \in 1..Len(a) : x # y => order[x] # order[y]
        /\ \A x \in 1..(Len(a) - 1) : a[order[x] + 1] <= a[order[x + 1] + 1]}

reversed_not(s) == s

\* s[::-1]
reversed(s) == np_array([j \in 1..Len(s) |-> s[Len(s) + 1 - j]])

----------------------------------------------------------------------------
(* Bucketizer *)

\* a[start::step] for 0 <= start, 1 <= step
RECURSIVE slice(_, _, _)
slice(a, start, step) ==
    IF start >= Len(a) THEN <<>>
    ELSE <<a[start + 1]>> \o slice(a, start + step, step)

get_buckets_from_one(ct, L) ==
    np_array([i \in 1..L |-> slice(ct, i, L)])

\* [ciphertext[i::key_length] for i in range(0, key_length)]
get_buckets(ct, L) ==
    np_array([i \in 1..L |-> slice(ct, i - 1, L)])

----------------------------------------------------------------------------
(* Key recoverer *)

RECURSIVE np_sum(_)
np_sum(s) == IF s = <<>> THEN 0 ELSE Head(s) + np_sum(Tail(s))

\* a / b of line 91: the fraction <<a, b>>; b = 0 gives 0/0, which numpy
\* evaluates to nan with a RuntimeWarning, not an exception
true_divide(a, b) == <<a, b>>

\* [[np.sum(ct[ct == c])/len(ct) for c in range(0,26)] for ct in buckets]
cipher_freqs(bs) ==
    np_array([p \in 1..Len(bs) |->
        np_array([c \in 1..26 |->
            true_divide(np_sum(SelectSeq(bs[p], LAMBDA x : x = c - 1)),
                        Len(bs[p]))])])

\* the same rows for buckets given by their letter counts h (h[c+1] letters
\* of code c): ct[ct == c] is h[c+1] copies of c, len(ct) is the total
RECURSIVE total(_)
total(h) == IF h = <<>> THEN 0 ELSE Head(h) + total(Tail(h))

hist_freqs(hs) ==
    np_array([p \in 1..Len(hs) |->
        LET n == total(hs[p])
        IN  np_array([c \in 1..26 |-> true_divide((c - 1) * hs[p][c], n)])])

\* a score that is not a number
NaN == <<-1, 0>>

\* sum over c of w[c] * M[c][i], kept as <<hi, lo>> meaning hi * 1000 + lo
\* (exact; the sum passes 2^31 for a bucket of 99999 letters)
RECURSIVE dot_acc(_, _, _, _, _)
dot_acc(w, M, i, c, acc) ==
    IF c > 26 THEN acc
    ELSE dot_acc(w, M, i, c + 1,
                 <<acc[1] + (w[c][1] \div 1000) * M[c][i],
                   acc[2] + (w[c][1] % 1000) * M[c][i]>>)

\* entry i of one row of cipher_freqs.dot(freq_shifts)
score(w, M, i) ==
    IF w[1][2] = 0 THEN NaN
    ELSE LET s == dot_acc(w, M, i, 1, <<0, 0>>)
         IN  <<s[1] + (s[2] \div 1000), s[2] % 1000>>

\* cipher_freqs.dot(freq_shifts)
dot(cf, M) ==
    np_array([p \in 1..Len(cf) |->
        np_array([i \in 1..26 |-> score(cf[p], M, i)])])

\* a <= b on floats: false when either is nan
float_le(a, b) ==
    /\ a # NaN
    /\ b # NaN
    /\ \/ a[1] < b[1]
       \/ a[1] = b[1] /\ a[2] <= b[2]

float_lt(a, b) == float_le(a, b) /\ a # b

\* np.argmax of a float row: keep mp, the first element; move to element i
\* when !(r[i] <= mp); stop at a nan.  Returns a 0-based index.
RECURSIVE argmax_scan(_, _, _)
argmax_scan(r, i, best) ==
    IF i > Len(r) \/ r[best] = NaN THEN best - 1
    ELSE argmax_scan(r, i + 1, IF ~float_le(r[i], r[best]) THEN i ELSE best)

RECURSIVE argmax_last_scan(_, _, _)
argmax_last_scan(r, i, best) ==
    IF i > Len(r) \/ r[best] = NaN THEN best - 1
    ELSE argmax_last_scan(r, i + 1, IF ~float_lt(r[i], r[best]) THEN i ELSE best)

argmax_last(r) == argmax_last_scan(r, 2, 1)

argmax(r) == argmax_scan(r, 2, 1)

\* [np.argmax(r) for r in R]
argmax_rows(rows) == np_array([p \in 1..Len(rows) |-> argmax(rows[p])])

\* get_key(buckets), lines 91-93 in one piece
get_key(bs, M) == argmax_rows(dot(cipher_freqs(bs), M))

----------------------------------------------------------------------------
(* Decoder and rendering *)

decode_add(ct, k) ==
    np_array([i \in 1..Len(ct) |->
        (26 + ct[i] + k[((i - 1) % Len(k)) + 1]) % 26])

\* [(26+ciphertext[i] - key[i%len(key)]) % 26 for i in range(len(ciphertext))]
decode(ct, k) ==
    np_array([i \in 1..Len(ct) |->
        (26 + ct[i] - k[((i - 1) % Len(k)) + 1]) % 26])

\* ''.join([chr(c+97) for c in ch]), as ordinals
ints_to_string(ch) == [j \in 1..Len(ch) |-> ch[j] + 97]

----------------------------------------------------------------------------
(* The script: import, then the with-block of lines 126-143 *)

RawTexts == SeqsUpTo(Chars, 0, MaxLen)

Init ==
    /\ raw \in RawTexts
    /\ ciphertext = <<>>
    /\ shifts = <<>>
    /\ printed = <<>>
    /\ key_length = 0
    /\ buckets = <<>>
    /\ key = <<>>
    /\ plaintext = <<>>
    /\ output = <<>>
    /\ error = "none"
    /\ pc = "start"
    /\ freq_shifts = make_freq_shifts
    /\ plain = <<>>
    /\ secret = <<>>
    /\ hists = <<>>
    /\ cfreqs = <<>>
    /\ R = <<>>

\* lines 128-132: read the file, count coincidences, print the profile;
\* the script then waits at input()
Analyze ==
    /\ pc = "start"
    /\ ciphertext' = get_cipher_text(raw)
    /\ shifts' = get_shifts(ciphertext', ShiftMax)
    /\ \E order \in argsort(shifts') :
          printed' = [j \in 1..Len(order) |->
                         <<reversed(order)[j] + 1,
                           shifts'[reversed(order)[j] + 1]>>]
    /\ pc' = "input"
    /\ UNCHANGED <<raw, key_length, buckets, key, plaintext, output, error,
                   freq_shifts, plain, secret, hists, cfreqs, R>>

\* lines 136-143 for a typed key length L >= 1; get_key is spelled out so
\* that its locals cipher_freqs and R are part of the state
TryKeyLength ==
    /\ pc = "input"
    /\ \E L \in 1..MaxKeyLen :
          /\ key_length' = L
          /\ buckets' = get_buckets(ciphertext, L)
    /\ cfreqs' = cipher_freqs(buckets')
    /\ R' = dot(cfreqs', freq_shifts)
    /\ key' = argmax_rows(R')
    /\ plaintext' = decode(ciphertext, key')
    /\ output' = <<ints_to_string(key'), ints_to_string(plaintext')>>
    /\ pc' = "done"
    /\ UNCHANGED <<raw, ciphertext, shifts, printed, error, freq_shifts,
                   plain, secret, hists>>

\* lines 136-141 for a typed key length of 0: get_buckets returns [], the
\* array of frequencies has shape (0,) and .dot raises ValueError
TryZeroKeyLength ==
    /\ pc = "input"
    /\ key_length' = 0
    /\ buckets' = get_buckets(ciphertext, 0)
    /\ error' = "ValueError"
    /\ pc' = "crashed"
    /\ cfreqs' = cipher_freqs(buckets')
    /\ UNCHANGED <<raw, ciphertext, shifts, printed, key, plaintext, output,
                   freq_shifts, plain, secret, hists, R>>

Next == Analyze \/ TryKeyLength \/ TryZeroKeyLength

Spec == Init /\ [][Next]_vars

----------------------------------------------------------------------------
(* Round trip: a plaintext P is encrypted with a key K, then decoded *)

\* encrypt(P, K)[i] = (P[i] + K[i mod L]) mod 26
encrypt(P, K) ==
    [i \in 1..Len(P) |-> (P[i] + K[((i - 1) % Len(K)) + 1]) % 26]

InitRT ==
    /\ plain \in SeqsUpTo(SampleCodes, 1, MaxPlainLen)
    /\ secret \in SeqsUpTo(SampleCodes, 1, MaxSecretLen)
    /\ raw = <<>>
    /\ ciphertext = <<>>
    /\ shifts = <<>>
    /\ printed = <<>>
    /\ key_length = 0
    /\ buckets = <<>>
    /\ key = <<>>
    /\ plaintext = <<>>
    /\ output = <<>>
    /\ error = "none"
    /\ pc = "plain"
    /\ freq_shifts = make_freq_shifts
    /\ hists = <<>>
    /\ cfreqs = <<>>
    /\ R = <<>>

EncryptRT ==
    /\ pc = "plain"
    /\ ciphertext' = encrypt(plain, secret)
    /\ pc' = "encrypted"
    /\ UNCHANGED <<raw, shifts, printed, key_length, buckets, key, plaintext,
                   output, error, freq_shifts, plain, secret, hists, cfreqs,
                   R>>

DecodeRT ==
    /\ pc = "encrypted"
    /\ plaintext' = decode(ciphertext, secret)
    /\ pc' = "decoded"
    /\ UNCHANGED <<raw, ciphertext, shifts, printed, key_length, buckets, key,
                   output, error, freq_shifts, plain, secret, hists, cfreqs,
                   R>>

NextRT == EncryptRT \/ DecodeRT

SpecRT == InitRT /\ [][NextRT]_vars

----------------------------------------------------------------------------
(* Known vector: in every key position the plaintext holds each letter c   *)
(* exactly alpha_freqs[c] times (99999 letters per position); the text is  *)
(* encrypted with K and the key is recovered from the buckets, which are   *)
(* held as their letter counts.                                            *)

KnownKeys ==
    SeqsUpTo(0..25, 1, 1) \cup SeqsUpTo(KnownShifts, 2, MaxKnownLen)

\* letter counts of a position's bucket after encryption with shift k
shifted_counts(k) ==
    np_array([c \in 1..26 |->
        np_sum(np_array([d \in 1..26 |->
            IF ((d - 1) + k) % 26 = c - 1 THEN alpha_freqs[d] ELSE 0]))])

InitKnown ==
    /\ secret \in KnownKeys
    /\ plain = <<>>
    /\ raw = <<>>
    /\ ciphertext = <<>>
    /\ shifts = <<>>
    /\ printed = <<>>
    /\ key_length = 0
    /\ buckets = <<>>
    /\ key = <<>>
    /\ plaintext = <<>>
    /\ output = <<>>
    /\ error = "none"
    /\ pc = "known"
    /\ freq_shifts = make_freq_shifts
    /\ hists = <<>>
    /\ cfreqs = <<>>
    /\ R = <<>>

EncryptKnown ==
    /\ pc = "known"
    /\ hists' = np_array([p \in 1..Len(secret) |->
                              shifted_counts(secret[p])])
    /\ key_length' = Len(secret)
    /\ pc' = "bucketed"
    /\ UNCHANGED <<raw, ciphertext, shifts, printed, buckets, key, plaintext,
                   output, error, freq_shifts, plain, secret, cfreqs, R>>

RecoverKnown ==
    /\ pc = "bucketed"
    /\ cfreqs' = hist_freqs(hists)
    /\ R' = dot(cfreqs', freq_shifts)
    /\ key' = argmax_rows(R')
    /\ pc' = "recovered"
    /\ UNCHANGED <<raw, ciphertext, shifts, printed, key_length, buckets,
                   plaintext, output, error, freq_shifts, plain, secret,
                   hists>>

NextKnown == EncryptKnown \/ RecoverKnown

SpecKnown == InitKnown /\ [][NextKnown]_vars

----------------------------------------------------------------------------
(* Properties *)

N == Len(ciphertext)

\* the script has passed get_key and decode
Finished == pc = "done"

\* C1 (round trip): decoding encrypt(P, K) with K gives P again, of the
\* same length as the ciphertext, and two positions holding the same
\* ciphertext letter under the same key letter decode to the same letter.
RoundTrip ==
    pc = "decoded" =>
        /\ plaintext = plain
        /\ Len(plaintext) = N
        /\ \A i, j \in 1..N :
              (/\ ciphertext[i] = ciphertext[j]
               /\ secret[((i - 1) % Len(secret)) + 1]
                     = secret[((j - 1) % Len(secret)) + 1])
              => plaintext[i] = plaintext[j]

\* a plaintext of 3 letters under a key of 2, with a letter that wrapped
RoundTripWitness ==
    /\ pc = "decoded"
    /\ Len(plain) = 3
    /\ Len(secret) = 2
    /\ \E i \in 1..3 : ciphertext[i] < plain[i]

\* C2 (known vector): when every bucket holds the reference letter counts
\* shifted by its key letter, the recovered key is the encryption key.
KnownVectorRecovered ==
    pc = "recovered" => key = secret

KnownVectorWitness ==
    /\ pc = "recovered"
    /\ secret = <<10, 4, 24>>
    /\ key = <<10, 4, 24>>
    /\ \A p \in 1..3 : total(hists[p]) = 99999

\* C3 (empty bucket): a key length above the ciphertext length ends the run
\* in EmptyBucketError, with no key and no plaintext.
EmptyBucketRejected ==
    (pc \notin {"start", "input"} /\ key_length > N) =>
        /\ error = "EmptyBucketError"
        /\ key = <<>>
        /\ plaintext = <<>>

\* C4 (invalid input): a raw text with a character outside A..Z, line
\* breaks aside, ends in InvalidInputError, so that every element of a
\* ciphertext is a Letter Code.
InvalidInputRejected ==
    pc # "start" =>
        /\ (\E j \in 1..Len(raw) : raw[j] # 10 /\ raw[j] \notin 65..90)
              => error = "InvalidInputError"
        /\ error = "none" => \A j \in 1..N : ciphertext[j] \in 0..25

\* every shift 1..ShiftMax is printed once, with its count, and the counts
\* of successive lines never increase
ProfileDescending ==
    /\ Len(printed) = ShiftMax
    /\ \A s \in 1..ShiftMax :
          Cardinality({j \in 1..Len(printed) : printed[j][1] = s}) = 1
    /\ \A j \in 1..Len(printed) : printed[j][2] = shifts[printed[j][1]]
    /\ \A j \in 1..(Len(printed) - 1) : printed[j][2] >= printed[j + 1][2]

\* C5 as stated (coincidence ranking): descending counts, each shift once,
\* and of two shifts with the same count the smaller is printed first.
RankingSmallerShiftFirst ==
    pc # "start" =>
        /\ ProfileDescending
        /\ \A i, j \in 1..Len(printed) :
              (i < j /\ printed[i][2] = printed[j][2])
              => printed[i][1] < printed[j][1]

\* C5 as amended: descending counts, each shift once; nothing is promised
\* about the order of shifts with the same count.
RankingDescending ==
    pc # "start" => ProfileDescending

\* a profile with two different counts
RankingWitness ==
    /\ pc = "input"
    /\ \E j \in 1..(Len(printed) - 1) : printed[j][2] > printed[j + 1][2]

\* C6 (coincidence count): shifts[s] is the number of indices i in 0..N-1
\* with ciphertext[i] = ciphertext[(i+s) mod N].
CoincidenceCount ==
    pc # "start" =>
        /\ Len(shifts) = ShiftMax
        /\ \A s \in 1..ShiftMax :
              shifts[s] = Cardinality({i \in 0..(N - 1) :
                              ciphertext[i + 1] = ciphertext[((i + s) % N) + 1]})

\* three letters, a shift that matches at one index only and a shift that
\* wraps the whole text
CoincidenceWitness ==
    /\ pc = "input"
    /\ N = 3
    /\ shifts[1] = 1
    /\ shifts[3] = 3

\* C7 (bucket partition): L buckets, bucket p holding the elements at
\* indices p, p+L, p+2L, ... in order; every index lies in exactly one
\* bucket, and interleaving the buckets gives the ciphertext back.
BucketPartition ==
    Finished =>
        /\ Len(buckets) = key_length
        /\ \A p \in 0..(key_length - 1) :
              /\ Len(buckets[p + 1])
                    = Cardinality({i \in 0..(N - 1) : i % key_length = p})
              /\ \A j \in 0..(Len(buckets[p + 1]) - 1) :
                    buckets[p + 1][j + 1] = ciphertext[p + j * key_length + 1]
        /\ \A i \in 0..(N - 1) :
              Cardinality({pj \in (0..(key_length - 1)) \X (0..(N - 1)) :
                              /\ pj[2] < Len(buckets[pj[1] + 1])
                              /\ pj[1] + pj[2] * key_length = i}) = 1
        /\ ciphertext = [i \in 1..N |->
                            buckets[((i - 1) % key_length) + 1]
                                   [((i - 1) \div key_length) + 1]]

\* three letters in two buckets of different lengths
BucketWitness ==
    /\ Finished
    /\ N = 3
    /\ key_length = 2
    /\ Len(buckets[1]) = 2
    /\ Len(buckets[2]) = 1

count(ct, c) == Cardinality({j \in 1..Len(ct) : ct[j] = c})

\* C8 (empirical frequency vector): for a non-empty bucket, entry c of the
\* vector get_key computes is (occurrences of c) / (bucket length), and the
\* 26 entries sum to 1.
FrequencyIsCountOverLength ==
    Finished =>
        \A p \in 1..Len(buckets) :
            Len(buckets[p]) > 0 =>
                LET f == cfreqs[p] IN
                /\ \A c \in 0..25 :
                      f[c + 1][1] * Len(buckets[p])
                         = count(buckets[p], c) * f[c + 1][2]
                /\ np_sum([c \in 1..26 |-> f[c][1]]) = f[1][2]

\* numpy's order for argmax: nan is maximal
is_max(r, i) == \A j \in 1..Len(r) : r[i] = NaN \/ float_le(r[j], r[i])

MatrixStructure ==
    /\ Len(freq_shifts) = 26
    /\ \A j \in 0..25 :
          /\ Len(freq_shifts[j + 1]) = 26
          /\ \A i \in 0..25 :
                freq_shifts[j + 1][i + 1] = alpha_freqs[((j - i) % 26) + 1]
    /\ \A j \in 0..25 : freq_shifts[j + 1][1] = alpha_freqs[j + 1]

\* the matrix has been used by get_key; row 0 of column 1 is the frequency
\* of Z
MatrixWitness ==
    /\ Finished
    /\ freq_shifts[1][2] = 74
    /\ freq_shifts[2][2] = 8167

\* the letter counts of a bucket of Letter Codes give the rows line 91
\* computes from the bucket itself
histogram(ct) == [c \in 1..26 |-> count(ct, c - 1)]

\* the three steps of TryKeyLength are get_key
KeyIsGetKey ==
    Finished => key = get_key(buckets, freq_shifts)

HistogramAgrees ==
    Finished =>
        \A p \in 1..Len(buckets) :
            (\A j \in 1..Len(buckets[p]) : buckets[p][j] \in 0..25)
            => hist_freqs(<<histogram(buckets[p])>>)
                  = cipher_freqs(<<buckets[p]>>)

====
